---- MODULE Spec2Model ----
\* Radix sort engine of package radix (radixsort.go, index.go and the typed
\* slice helpers), modelled as a state machine with an explicit call stack.
\*
\* A Key (uint64) is a sequence of 8 bytes, most significant byte first, so
\* that all 64 bits are kept.  Slices are functions over 0..l-1, as in Go.
EXTENDS Integers, Sequences, FiniteSets, Bags, TLC

VARIABLES kind, input, data, Keys, pc, stack, scratch, lastLess, lastSwap

vars == <<kind, input, data, Keys, pc, stack, scratch, lastLess, lastSwap>>

-----------------------------------------------------------------------------
\* Program constants

radix == 8

mask == 255

qSortCutoff == 128

\* number of buckets, 1 << radix
NBuckets == 2 ^ radix

\* bytes and bits of a Key
KeyBytes == 8

KeyBits == 64

-----------------------------------------------------------------------------
\* Bounds of the model

\* lengths qSortCutoff .. qSortCutoff + MaxExtra are sorted by the radix engine
MaxExtra == 2

\* length of the long all-equal input
BigLen == 500

\* cap on the call stack (never reached by the code as written)
MaxDepth == 20

-----------------------------------------------------------------------------
\* the one element of a singleton set; The({F(x) : x \in {e}}) is F(e) with e
\* evaluated once
The(S) == CHOOSE r \in S : TRUE

Least(S) == CHOOSE x \in S : \A y \in S : x <= y

Min(S) == The({Least(T) : T \in {S}})

-----------------------------------------------------------------------------
\* uint64 arithmetic on 8-byte keys

Zero == <<0, 0, 0, 0, 0, 0, 0, 0>>

\* 1 << 63
SignBit == <<128, 0, 0, 0, 0, 0, 0, 0>>

Bit(x, t) == (x \div (2 ^ t)) % 2

ByteXor(x, y) ==
    LET b(t) == IF Bit(x, t) # Bit(y, t) THEN 2 ^ t ELSE 0
    IN  IF y = 0 THEN x
        ELSE IF x = 0 THEN y
        ELSE b(0) + b(1) + b(2) + b(3) + b(4) + b(5) + b(6) + b(7)

ByteOr(x, y) ==
    LET b(t) == IF Bit(x, t) = 1 \/ Bit(y, t) = 1 THEN 2 ^ t ELSE 0
    IN  IF y = 0 THEN x
        ELSE IF x = 0 THEN y
        ELSE b(0) + b(1) + b(2) + b(3) + b(4) + b(5) + b(6) + b(7)

\* x ^ y
KeyXor(x, y) == [p \in 1..KeyBytes |-> ByteXor(x[p], y[p])]

\* x | y
KeyOr(x, y) == [p \in 1..KeyBytes |-> ByteOr(x[p], y[p])]

\* ^x
KeyNot(x) == [p \in 1..KeyBytes |-> 255 - x[p]]

\* x < y, unsigned
KeyLT(x, y) ==
    \E p \in 1..KeyBytes : x[p] < y[p] /\ \A q \in 1..(p - 1) : x[q] = y[q]

KeyLE(x, y) == x = y \/ KeyLT(x, y)

\* byte j of x counted from the least significant one; 0 beyond the width
ByteAt(x, j) == IF j \in 0..(KeyBytes - 1) THEN x[KeyBytes - j] ELSE 0

\* byte j (from the least significant one) of x >> s, for s >= 0; a shift of
\* 64 or more gives 0, as in Go
ShrByte(x, s, j) ==
    (ByteAt(x, j + (s \div 8)) \div (2 ^ (s % 8)))
    + (ByteAt(x, j + (s \div 8) + 1) % (2 ^ (s % 8))) * (2 ^ (8 - (s % 8)))

\* x >> s
Shr(x, s) == [p \in 1..KeyBytes |-> ShrByte(x, s, KeyBytes - p)]

\* x - 1 with wrap-around
RECURSIVE Borrow(_, _)
Borrow(x, p) ==
    IF p = 0 THEN x
    ELSE IF x[p] > 0 THEN [x EXCEPT ![p] = x[p] - 1]
    ELSE Borrow([x EXCEPT ![p] = 255], p - 1)

Sub1(x) == Borrow(x, KeyBytes)

\* (k >> shift) & mask, as a bucket number
Digit(k, shift) == ShrByte(k, shift, 0) % (mask + 1)

-----------------------------------------------------------------------------
\* Key functions of the typed slices

\* Int64Key: Key(i) ^ 1<<63
Int64Key(i) == KeyXor(i, SignBit)

\* p[i] < p[j] on int64 values held as two's complement bit patterns
Int64Less(x, y) ==
    LET nx == x[1] >= 128
        ny == y[1] >= 128
    IN  IF nx # ny THEN nx ELSE KeyLT(x, y)

\* Float64Key on the bits of the float: b ^= ^(b>>63 - 1) | (1 << 63)
Float64Key(b) == KeyXor(b, KeyOr(KeyNot(Sub1(Shr(b, 63))), SignBit))

Float64Less(f, g) == KeyLT(Float64Key(f), Float64Key(g))

\* stringKey: up to 8 leading bytes, byte 0 shifted to bits 56..63
stringKey(s) ==
    [p \in 1..KeyBytes |-> IF p <= Len(s) THEN ByteXor(0, s[p]) ELSE 0]

\* p[i] < p[j] on strings: bytewise, a proper prefix is smaller
StringLess(s, t) ==
    \/ \E p \in 1..Len(s) :
          /\ p <= Len(t)
          /\ s[p] < t[p]
          /\ \A q \in 1..(p - 1) : s[q] = t[q]
    \/ Len(s) < Len(t) /\ \A q \in 1..Len(s) : s[q] = t[q]

-----------------------------------------------------------------------------
\* Inputs: the collections handed to the Sort methods

\* a small non-negative int64
Nat16(n) == <<0, 0, 0, 0, 0, 0, n \div 256, n % 256>>

\* the int64 -n, for n in 1..255
Neg8(n) == <<255, 255, 255, 255, 255, 255, 255, 256 - n>>

\* neighbours exchanged: 1, 0, 3, 2, ...
IntPairs(l) == [i \in 0..(l - 1) |-> Nat16(IF i % 2 = 0 THEN i + 1 ELSE i - 1)]

\* 5, -3, 0, 5, -3 repeated
IntCycle(l) ==
    [i \in 0..(l - 1) |-> <<Nat16(5), Neg8(3), Nat16(0), Nat16(5), Neg8(3)>>[(i % 5) + 1]]

IntEqual(l) == [i \in 0..(l - 1) |-> Nat16(5)]

\* two elements outside the sample of guessInitialShift have bit 10 set
IntFooled(l) ==
    [i \in 0..(l - 1) |-> IF i \in {1, 2} THEN Nat16(1026 - i) ELSE Nat16(((i * 4) \div l) * 2)]

\* one element with bit 42 set, one with bit 16 set, the rest below 4
IntDeep(l) ==
    [i \in 0..(l - 1) |-> IF i = l - 1 THEN <<0, 0, 4, 0, 0, 0, 0, 0>>
                        ELSE IF i = 1 THEN <<0, 0, 0, 0, 0, 1, 0, 0>>
                        ELSE Nat16(((i + 40) % l * 4) \div l)]

abcdefg == <<97, 98, 99, 100, 101, 102, 103>>

\* "banana", "apple", "apple", "band"
StrFruit ==
    [i \in 0..3 |-> << <<98, 97, 110, 97, 110, 97>>, <<97, 112, 112, 108, 101>>,
                           <<97, 112, 112, 108, 101>>, <<98, 97, 110, 100>> >>[i + 1]]

\* "abcdefghB", "abc", "", "abcdefghA", "abcdefgh"
StrTies ==
    [i \in 0..4 |-> << abcdefg \o <<104, 66>>, <<97, 98, 99>>, << >>,
                           abcdefg \o <<104, 65>>, abcdefg \o <<104>> >>[i + 1]]

\* all strings share the 8-byte prefix "abcdefgh"
StrPrefix(l) ==
    [i \in 0..(l - 1) |-> abcdefg \o <<104, IF i % 2 = 0 THEN i + 1 ELSE i - 1>>]

\* the 8th byte varies, a 9th byte breaks ties
StrMixed(l) ==
    [i \in 0..(l - 1) |-> abcdefg \o <<97 + ((i * 3) % 4), IF i % 16 = 0 THEN 65 ELSE 66>>]

\* float64 bit patterns
FOne == <<63, 240, 0, 0, 0, 0, 0, 0>>

FNegOne == <<191, 240, 0, 0, 0, 0, 0, 0>>

FNegZero == SignBit

FInf == <<127, 240, 0, 0, 0, 0, 0, 0>>

FNegInf == <<255, 240, 0, 0, 0, 0, 0, 0>>

FMax == <<127, 239, 255, 255, 255, 255, 255, 255>>

\* math.NaN()
FNaN == <<127, 248, 0, 0, 0, 0, 0, 1>>

\* the same NaN with the sign bit set
FNegNaN == <<255, 248, 0, 0, 0, 0, 0, 1>>

\* 1.0, NaN, -1.0, 0.0
FloatsA == [i \in 0..3 |-> <<FOne, FNaN, FNegOne, Zero>>[i + 1]]

FloatsB ==
    [i \in 0..8 |-> <<FNaN, FNegInf, FNegZero, FOne, FInf, FNegNaN, Zero,
                          FNegOne, FMax>>[i + 1]]

RadixLens == qSortCutoff..(qSortCutoff + MaxExtra)

Inputs ==
    {[kind |-> "int64", data |-> IntPairs(l)] :
        l \in {0, 1, 2, qSortCutoff - 1} \cup RadixLens}
    \cup {[kind |-> "int64", data |-> IntCycle(l)] : l \in {5, qSortCutoff}}
    \cup {[kind |-> "int64", data |-> IntEqual(l)] : l \in {qSortCutoff, BigLen}}
    \cup {[kind |-> "int64", data |-> IntFooled(l)] : l \in RadixLens}
    \cup {[kind |-> "int64", data |-> IntDeep(l)] : l \in RadixLens}
    \cup {[kind |-> "string", data |-> d] : d \in {StrFruit, StrTies}}
    \cup {[kind |-> "string", data |-> StrPrefix(l)] : l \in {3, qSortCutoff}}
    \cup {[kind |-> "string", data |-> StrMixed(l)] : l \in RadixLens}
    \cup {[kind |-> "float64", data |-> d] : d \in {FloatsA, FloatsB}}

-----------------------------------------------------------------------------
\* The collection seen through Interface: Len, Key, Less, Swap

Len0(p) == Cardinality(DOMAIN p)

\* index.Less on the two keys and the answer of the underlying Less; the
\* underlying Less is consulted only when || and && get that far
IndexLess_eager(ki, kj, inner) ==
    [res |-> KeyLT(ki, kj) \/ (ki = kj /\ inner), consulted |-> TRUE]

IndexLess_keysOnly(ki, kj, inner) ==
    [res |-> KeyLT(ki, kj), consulted |-> FALSE]

IndexLess(ki, kj, inner) ==
    IF KeyLT(ki, kj) THEN [res |-> TRUE, consulted |-> FALSE]
    ELSE IF ki = kj THEN [res |-> inner, consulted |-> TRUE]
    ELSE [res |-> FALSE, consulted |-> FALSE]

\* data.Key(i)
Key(i) ==
    CASE kind = "int64" -> Int64Key(data[i])
      [] kind = "float64" -> Float64Key(data[i])
      [] kind = "string" -> Keys[i]

\* data.Less(i, j): the result, whether the Less of the caller's collection was
\* consulted, and whether the two keys were equal
LessEval(i, j) ==
    CASE kind = "int64" ->
            [called |-> TRUE, res |-> Int64Less(data[i], data[j]), user |-> TRUE,
             eq |-> Key(i) = Key(j)]
      [] kind = "float64" ->
            [called |-> TRUE, res |-> Float64Less(data[i], data[j]), user |-> TRUE,
             eq |-> Key(i) = Key(j)]
      [] kind = "string" ->
            LET e == IndexLess(Keys[i], Keys[j], StringLess(data[i], data[j]))
            IN  [called |-> TRUE, res |-> e.res, user |-> e.consulted,
                 eq |-> Keys[i] = Keys[j]]

Less(i, j) == LessEval(i, j).res

\* Swap of the typed slices: p[i], p[j] = p[j], p[i]
SliceSwap_overwrite(p, i, j) == [p EXCEPT ![i] = p[j]]

SliceSwap(p, i, j) == [p EXCEPT ![i] = p[j], ![j] = p[i]]

\* the Keys half of index.Swap
IndexSwapKeys_none(keys, i, j) == keys

IndexSwapKeys(keys, i, j) == [keys EXCEPT ![i] = keys[j], ![j] = keys[i]]

\* data.Swap(i, j)
Swap(i, j) ==
    /\ data' = SliceSwap(data, i, j)
    /\ Keys' = IF kind = "string" THEN IndexSwapKeys(Keys, i, j) ELSE Keys

\* stringIndexBuilder.SetKeys(keys, a)
SetKeys(keys, a) ==
    LET l == Len0(data)
    IN  [i \in DOMAIN keys |-> IF i + a < l THEN stringKey(data[i + a]) ELSE keys[i]]

NoLess == [called |-> FALSE, res |-> FALSE, user |-> FALSE, eq |-> FALSE]

NoSwap == [i |-> -1, j |-> -1]

-----------------------------------------------------------------------------
\* guessInitialShift

IsZero(x) == x = Zero

SampleStep(l) ==
    LET s == IF l > 2 ^ 16 THEN l \div (2 ^ 8) ELSE l \div (2 ^ 5)
    IN  IF s = 0 THEN 1 ELSE s

\* if k < min { min = k }; if k > max { max = k }
Widen(x, y) ==
    [min |-> IF KeyLT(y.min, x.min) THEN y.min ELSE x.min,
     max |-> IF KeyLT(x.max, y.max) THEN y.max ELSE x.max]

\* the min and max of Key over the n indices from, from+step, ... (the loops
\* that keep a running min and max, folded pairwise)
RECURSIVE Scan(_, _, _)
Scan(from, n, step) ==
    IF n = 1 THEN The({[min |-> k, max |-> k] : k \in {Key(from)}})
    ELSE The({Widen(x, y) : x \in {Scan(from, n \div 2, step)},
                            y \in {Scan(from + (n \div 2) * step, n - (n \div 2), step)}})

\* for diff != 0 { log2diff += radix; diff >>= radix }
RECURSIVE GuessLog2(_)
GuessLog2(diff) == IF IsZero(diff) THEN 0 ELSE radix + GuessLog2(Shr(diff, radix))

ShiftGuess_twice(log2diff) ==
    IF log2diff - 2 * radix < 0 THEN 0 ELSE log2diff - 2 * radix

ShiftGuess(log2diff) == IF log2diff - radix < 0 THEN 0 ELSE log2diff - radix

guessInitialShift(l) ==
    The({ShiftGuess(GuessLog2(KeyXor(mm.min, mm.max))) :
            mm \in {Widen(x, y) :
                       x \in {Scan(l - 1, 1, 1)},
                       y \in {Scan(0, ((l - 1) \div SampleStep(l)) + 1, SampleStep(l))}}})

-----------------------------------------------------------------------------
\* Call stack

RFrame(shift, a, b, fix) ==
    [fn |-> "radixSort", pc |-> "entry", shift |-> shift, a |-> a, b |-> b,
     fix |-> fix, took |-> "", diff |-> Zero, ends |-> << >>, cur |-> 0,
     i |-> 0, j |-> 0, pos |-> 0, bk |-> 0, swaps |-> 0]

QFrame(a, b) ==
    [fn |-> "qSort", pc |-> "loop", shift |-> 0, a |-> a, b |-> b,
     fix |-> FALSE, took |-> "", diff |-> Zero, ends |-> << >>, cur |-> 0,
     i |-> a + 1, j |-> a + 1, pos |-> 0, bk |-> 0, swaps |-> 0]

Top == stack[Len(stack)]

SetTop(f) == [stack EXCEPT ![Len(stack)] = f]

Running(fn, at) ==
    /\ pc = "running"
    /\ stack # << >>
    /\ Top.fn = fn
    /\ Top.pc = at


-----------------------------------------------------------------------------
\* radixSort

Buckets == 0..(NBuckets - 1)

\* (k>>shift)&mask for the keys of [a, b)
Digits(a, b, shift) == [i \in a..(b - 1) |-> Digit(Key(i), shift)]

\* bucketStarts[d[i]]++ over [a, b)
Counts(d) ==
    The({[c \in Buckets |-> Cardinality({i \in DOMAIN e : e[i] = c})] : e \in {d}})

\* min and max of the keys of [a, b)
RangeMinMax(a, b) == Scan(a, b - a, 1)

ConstantRange_never(diff) == FALSE

\* diff == 0: every key of the range is the same
ConstantRange(diff) == IsZero(diff)

\* diff>>shift == 0 || diff>>(shift+radix) != 0
NeedsFix(diff, shift) ==
    IsZero(Shr(diff, shift)) \/ ~IsZero(Shr(diff, shift + radix))

\* for diff != 0 { log2diff++; diff >>= 1 }
RECURSIVE Log2(_)
Log2(diff) == IF IsZero(diff) THEN 0 ELSE 1 + Log2(Shr(diff, 1))

FixedShift_high(diff) == Log2(diff)

\* the shift of the self-correcting call
FixedShift(diff) ==
    LET n == Log2(diff) - radix
    IN  IF n < 0 THEN 0 ELSE n

\* pos += c; bucketEnds[i] = pos
BucketEnd_empty(pos, c) == pos

BucketEnd(pos, c) == pos + c

\* counts[lo] + ... + counts[hi]
RECURSIVE Sum(_, _, _)
Sum(counts, lo, hi) ==
    IF lo = hi THEN counts[lo]
    ELSE The({Sum(counts, lo, m) + Sum(counts, m + 1, hi) : m \in {(lo + hi) \div 2}})

\* bucketStarts[i] = pos; pos += c  for the buckets lo..hi, pos being the
\* start of bucket lo
RECURSIVE Starts(_, _, _, _)
Starts(counts, lo, hi, pos) ==
    IF lo = hi THEN lo :> pos
    ELSE The({Starts(counts, lo, m, pos)
                 @@ Starts(counts, m + 1, hi, pos + Sum(counts, lo, m)) :
              m \in {(lo + hi) \div 2}})

\* the prefix sums: bucket c is [starts[c], ends[c])
BucketStarts(counts, a) == Starts(counts, 0, NBuckets - 1, a)

BucketEnds(counts, a) ==
    The({[c \in Buckets |-> BucketEnd(st[c], counts[c])] :
            st \in {BucketStarts(counts, a)}})

\* the head of the two permutation loops: the next (curBucket, i) with
\* i < bucketEnd, or the end of the loops
LoopHead(f, starts) ==
    LET from(c) == IF c = f.cur THEN f.i ELSE starts[c]
        left == {c \in f.cur..(NBuckets - 1) : from(c) < f.ends[c]}
    IN  IF left = {}
        THEN [f EXCEPT !.pc = "recurse", !.cur = NBuckets, !.pos = f.a, !.bk = 0]
        ELSE [f EXCEPT !.cur = Min(left), !.i = from(Min(left))]

\* end > pos+1
NeedsSort_three(pos, end) == end > pos + 2

NeedsSort(pos, end) == end > pos + 1

\* nextShift := shift - radix, 0 when shift < radix
NextShift(shift) == IF shift < radix THEN 0 ELSE shift - radix

-----------------------------------------------------------------------------
\* Actions

Init ==
    /\ \E in \in Inputs :
          /\ kind = in.kind
          /\ input = in.data
          /\ data = in.data
          /\ pc = IF in.kind = "string" THEN "SortIndex" ELSE "Sort"
    /\ Keys = << >>
    /\ stack = << >>
    /\ scratch = [c \in Buckets |-> 0]
    /\ lastLess = NoLess
    /\ lastSwap = NoSwap

\* SortStrings: SortIndex allocates the keys, has SetKeys fill them and calls Sort
SortIndex ==
    /\ pc = "SortIndex"
    /\ Keys' = SetKeys([i \in DOMAIN data |-> Zero], 0)
    /\ pc' = "Sort"
    /\ UNCHANGED <<kind, input, data, stack, scratch, lastLess, lastSwap>>

\* Sort up to its call of qSort or radixSort
Sort ==
    /\ pc = "Sort"
    /\ LET l == Len0(data)
       IN  IF l < qSortCutoff
           THEN stack' = <<QFrame(0, l)>>
           ELSE stack' = <<RFrame(guessInitialShift(l), 0, l, FALSE)>>
    /\ pc' = "running"
    /\ UNCHANGED <<kind, input, data, Keys, scratch, lastLess, lastSwap>>

\* radixSort from its entry to a call or to the head of the permutation loop
RadixSort ==
    /\ Running("radixSort", "entry")
    /\ \E f \in {Top} :
       IF f.b - f.a < qSortCutoff
       THEN /\ Len(stack) < MaxDepth
            /\ stack' = Append(SetTop([f EXCEPT !.pc = "ret", !.took = "small"]),
                               QFrame(f.a, f.b))
            /\ scratch' = scratch
       ELSE \E counts \in {Counts(Digits(f.a, f.b, f.shift))},
               mm \in {RangeMinMax(f.a, f.b)} :
            \E diff \in {KeyXor(mm.min, mm.max)} :
            IF ConstantRange(diff)
            THEN /\ Len(stack) < MaxDepth
                 /\ stack' = Append(SetTop([f EXCEPT !.pc = "ret", !.took = "equal",
                                                     !.diff = diff]),
                                    QFrame(f.a, f.b))
                 /\ scratch' = counts
            ELSE IF NeedsFix(diff, f.shift)
            THEN /\ Len(stack) < MaxDepth
                 /\ stack' = Append(SetTop([f EXCEPT !.pc = "ret", !.took = "fix",
                                                     !.diff = diff]),
                                    RFrame(FixedShift(diff), f.a, f.b, TRUE))
                 /\ scratch' = counts
            ELSE \E bucketStarts \in {BucketStarts(counts, f.a)},
                    bucketEnds \in {BucketEnds(counts, f.a)} :
                 \E g \in {[f EXCEPT !.pc = "permute", !.took = "part",
                                      !.diff = diff, !.ends = bucketEnds,
                                      !.cur = 0, !.i = bucketStarts[0]]} :
                    /\ scratch' = bucketStarts
                    /\ stack' = SetTop(LoopHead(g, bucketStarts))
    /\ lastLess' = NoLess
    /\ lastSwap' = NoSwap
    /\ UNCHANGED <<kind, input, data, Keys, pc>>

\* one turn of the inner permutation loop
Permute ==
    /\ Running("radixSort", "permute")
    /\ \E f \in {Top} :
       \E destBucket \in {Digit(Key(f.i), f.shift)} :
       \E bucketStarts \in {[scratch EXCEPT ![destBucket] = @ + 1]} :
          /\ scratch' = bucketStarts
          /\ IF destBucket = f.cur
             THEN /\ \E g \in {[f EXCEPT !.i = @ + 1]} :
                        stack' = SetTop(LoopHead(g, bucketStarts))
                  /\ lastSwap' = NoSwap
                  /\ UNCHANGED <<data, Keys>>
             ELSE /\ Swap(f.i, scratch[destBucket])
                  /\ \E g \in {[f EXCEPT !.swaps = @ + 1]} :
                        stack' = SetTop(LoopHead(g, bucketStarts))
                  /\ lastSwap' = [i |-> f.i, j |-> scratch[destBucket]]
    /\ lastLess' = NoLess
    /\ UNCHANGED <<kind, input, pc>>

\* the bucket the loops over bucketEnds reach next: the first k >= f.bk with
\* end > pos+1, or NBuckets when there is none
NextBucket(f) ==
    LET left == {k \in f.bk..(NBuckets - 1) :
                    NeedsSort(IF k = f.bk THEN f.pos ELSE f.ends[k - 1], f.ends[k])}
    IN  IF left = {} THEN NBuckets ELSE Min(left)

\* the loops over bucketEnds after the permutation: the next call of qSort
\* (shift == 0) or radixSort, or the end of radixSort
Recurse ==
    /\ Running("radixSort", "recurse")
    /\ \E f \in {Top} :
       \E k \in {NextBucket(f)} :
          IF k = NBuckets
          THEN stack' = SetTop([f EXCEPT !.pc = "ret", !.bk = NBuckets])
          ELSE \E lo \in {IF k = f.bk THEN f.pos ELSE f.ends[k - 1]} :
               /\ Len(stack) < MaxDepth
               /\ stack' = Append(SetTop([f EXCEPT !.pos = f.ends[k], !.bk = k + 1]),
                                  IF f.shift = 0
                                  THEN QFrame(lo, f.ends[k])
                                  ELSE RFrame(NextShift(f.shift), lo, f.ends[k], FALSE))
    /\ lastLess' = NoLess
    /\ lastSwap' = NoSwap
    /\ UNCHANGED <<kind, input, data, Keys, pc, scratch>>

\* return of radixSort or qSort to its caller
Return ==
    /\ pc = "running"
    /\ stack # << >>
    /\ Top.pc = "ret"
    /\ stack' = SubSeq(stack, 1, Len(stack) - 1)
    /\ pc' = IF Len(stack) = 1 THEN "done" ELSE pc
    /\ lastLess' = NoLess
    /\ lastSwap' = NoSwap
    /\ UNCHANGED <<kind, input, data, Keys, scratch>>

\* qSort(data, a, b), the fallback sort: an insertion sort that reads the
\* collection through Less and changes it through Swap only.  One step is one
\* test of the inner loop  for j := i; j > a && data.Less(j, j-1); j--
QSort ==
    /\ Running("qSort", "loop")
    /\ \E f \in {Top} :
       \E e \in {IF f.i < f.b /\ f.j > f.a THEN LessEval(f.j, f.j - 1) ELSE NoLess} :
           IF f.i >= f.b
           THEN /\ stack' = SetTop([f EXCEPT !.pc = "ret"])
                /\ lastLess' = NoLess
                /\ lastSwap' = NoSwap
                /\ UNCHANGED <<data, Keys>>
           ELSE IF f.j > f.a /\ e.res
           THEN /\ Swap(f.j, f.j - 1)
                /\ stack' = SetTop([f EXCEPT !.j = @ - 1, !.swaps = @ + 1])
                /\ lastLess' = e
                /\ lastSwap' = [i |-> f.j, j |-> f.j - 1]
           ELSE /\ stack' = SetTop([f EXCEPT !.i = @ + 1, !.j = f.i + 1])
                /\ lastLess' = e
                /\ lastSwap' = NoSwap
                /\ UNCHANGED <<data, Keys>>
    /\ UNCHANGED <<kind, input, pc, scratch>>

Next ==
    \/ SortIndex
    \/ Sort
    \/ RadixSort
    \/ Permute
    \/ Recurse
    \/ QSort
    \/ Return

Spec == Init /\ [][Next]_vars

\* the program is one thread that runs until Sort returns
FairSpec == Spec /\ WF_vars(Next)

Done == pc = "done"

-----------------------------------------------------------------------------
\* Vocabulary of the properties

\* the Less of the collection the caller handed in
UserLess(i, j) ==
    CASE kind = "int64" -> Int64Less(data[i], data[j])
      [] kind = "float64" -> Float64Less(data[i], data[j])
      [] kind = "string" -> StringLess(data[i], data[j])

\* the first 8 bytes of s, zero-padded, first byte most significant
PrefixKey(s) == SubSeq(s \o Zero, 1, KeyBytes)

\* the key of element i of the input
InputKey(i) ==
    CASE kind = "int64" -> Int64Key(input[i])
      [] kind = "float64" -> Float64Key(input[i])
      [] kind = "string" -> PrefixKey(input[i])

\* the multiset of the elements of a slice
BagOfSlice(p) ==
    [e \in {p[i] : i \in DOMAIN p} |-> Cardinality({i \in DOMAIN p : p[i] = e})]

\* bit t of a key, t = 0 the least significant
BitOf(x, t) == Bit(ByteAt(x, t \div 8), t % 8)

\* position of the highest set bit of a key that is not 0
HighBit(x) ==
    CHOOSE t \in 0..(KeyBits - 1) :
        BitOf(x, t) = 1 /\ \A u \in (t + 1)..(KeyBits - 1) : BitOf(x, u) = 0

\* a float64 bit pattern is a NaN: exponent all ones, mantissa not 0
IsNaN(b) ==
    /\ b[1] % 128 = 127
    /\ b[2] \div 16 = 15
    /\ (b[2] % 16 # 0 \/ \E p \in 3..KeyBytes : b[p] # 0)

IsNegative(b) == b[1] >= 128

RadixFrames == {k \in 1..Len(stack) : stack[k].fn = "radixSort"}

PartFrames == {k \in RadixFrames : stack[k].took = "part"}

AllKeysEqual == \A k \in {InputKey(0)} : \A i \in DOMAIN input : InputKey(i) = k

\* the indices guessInitialShift looks at
SampleIdx ==
    LET l == Len0(input)
    IN  {i \in 0..(l - 1) : i % SampleStep(l) = 0} \cup {l - 1}

SampleKeys == {InputKey(i) : i \in SampleIdx}

MinKey(S) == CHOOSE k \in S : \A k2 \in S : KeyLE(k, k2)

MaxKey(S) == CHOOSE k \in S : \A k2 \in S : KeyLE(k2, k)

\* min XOR max over the sample
SampleDiff == \* evaluated once per state by the properties that bind it
    CHOOSE d \in {KeyXor(MinKey(S), MaxKey(S)) : S \in {SampleKeys}} : TRUE

-----------------------------------------------------------------------------
\* Properties

\* C1: when Sort has returned there is no i in 1..Len-1 with Less(i, i-1), and
\* Key(i-1) <= Key(i) for every adjacent pair; for every length and for the
\* index sorts, where equal keys are ordered by the underlying Less.
SortedOnReturn ==
    Done => \A i \in 1..(Len0(data) - 1) :
                ~Less(i, i - 1) /\ KeyLE(Key(i - 1), Key(i))

SortedOnReturn_Witness ==
    /\ Done
    /\ kind = "string"
    /\ Len0(data) = qSortCutoff + 1
    /\ data # input
    /\ \E i \in 1..(Len0(data) - 1) : Key(i - 1) = Key(i) /\ UserLess(i - 1, i)

\* C2: in every state during and after Sort the multiset of the elements of
\* the collection is the multiset of the input.
MultisetKept == BagOfSlice(data) = BagOfSlice(input)

MultisetKept_Witness ==
    /\ Running("radixSort", "permute")
    /\ lastSwap # NoSwap
    /\ data # input
    /\ data[lastSwap.i] # data[lastSwap.j]

\* C3: Sort returns for every input; an input with at least qSortCutoff
\* elements whose keys are all equal is handed whole to the fallback sort by the
\* outermost radixSort, which neither partitions nor calls radixSort again.
EqualKeysPath ==
    \A k \in RadixFrames :
        \/ /\ k = 1
           /\ stack[k].took \in {"", "equal"}
           /\ stack[k].pc \in {"entry", "ret"}
        \/ ~AllKeysEqual

SortTerminates == <>Done /\ []EqualKeysPath

SortTerminates_Witness ==
    /\ Done
    /\ Len0(input) = BigLen
    /\ AllKeysEqual

NaNsSortLast ==
    (kind = "float64" /\ Done) =>
        \A i, j \in DOMAIN data :
            /\ (IsNaN(data[i]) /\ ~IsNaN(data[j])) =>
                   /\ KeyLT(Float64Key(data[j]), Float64Key(data[i]))
                   /\ j < i
            /\ (~IsNaN(data[i]) /\ ~IsNaN(data[j])
                /\ IsNegative(data[i]) /\ ~IsNegative(data[j])) =>
                   KeyLT(Float64Key(data[i]), Float64Key(data[j]))

\* C6: in SortIndex, once SetKeys has filled the keys and after every Swap,
\* Keys[i] is the prefix key of the element now at position i.
KeysInStep ==
    (kind = "string" /\ pc # "SortIndex") =>
        /\ DOMAIN Keys = DOMAIN data
        /\ \A i \in DOMAIN data : Keys[i] = PrefixKey(data[i])

KeysInStep_Witness ==
    /\ kind = "string"
    /\ Running("radixSort", "permute")
    /\ lastSwap # NoSwap
    /\ Keys[lastSwap.i] # Keys[lastSwap.j]

\* C7 as claimed: after Sort, for adjacent elements with equal keys,
\* Less(i-1, i) is false.
TiesNotLessForward ==
    Done => \A i \in 1..(Len0(data) - 1) :
                Key(i - 1) = Key(i) => ~UserLess(i - 1, i)

\* C7 amended: after Sort, for adjacent elements with equal keys, Less(i, i-1)
\* is false.
TiesNotLessBackward ==
    Done => \A i \in 1..(Len0(data) - 1) :
                Key(i - 1) = Key(i) => ~UserLess(i, i - 1)

TiesNotLessBackward_Witness ==
    /\ Done
    /\ kind = "string"
    /\ \E i \in 1..(Len0(data) - 1) : Key(i - 1) = Key(i) /\ UserLess(i - 1, i)
    /\ \E i \in 1..(Len0(input) - 1) :
          InputKey(i - 1) = InputKey(i) /\ StringLess(input[i], input[i - 1])

\* C8: when radixSort partitions [a, b) the bucket ranges are contiguous, in
\* ascending digit order and cover [a, b); the loop places only elements of
\* digit c in bucket c, and when it has finished bucket c holds nothing else;
\* every Swap of the loop stays inside [a, b) and there are at most b-a.
BucketsPartition ==
    \A k \in PartFrames :
        LET f == stack[k]
            lo(c) == IF c = 0 THEN f.a ELSE f.ends[c - 1]
            hi(c) == IF f.pc = "permute" THEN scratch[c] ELSE f.ends[c]
        IN  /\ f.ends[NBuckets - 1] = f.b
            /\ \A c \in Buckets : lo(c) <= f.ends[c]
            /\ f.swaps <= f.b - f.a
            /\ (f.pc = "permute") =>
                  /\ k = Len(stack)
                  /\ \A c \in Buckets : lo(c) <= scratch[c] /\ scratch[c] <= f.ends[c]
                  /\ f.i = scratch[f.cur]
                  /\ lastSwap # NoSwap =>
                        {lastSwap.i, lastSwap.j} \subseteq f.a..(f.b - 1)
            /\ \A c \in Buckets : \A i \in lo(c)..(hi(c) - 1) :
                  Digit(Key(i), f.shift) = c

BucketsPartition_Witness ==
    /\ Running("radixSort", "recurse")
    /\ Top.bk = 0
    /\ Top.swaps > 1
    /\ Top.shift > 0
    /\ Cardinality({c \in Buckets : Top.ends[c] > (IF c = 0 THEN Top.a ELSE Top.ends[c - 1])}) > 1

Guessed == Running("radixSort", "entry") /\ Len(stack) = 1

\* C10 as claimed: the guess is 0 when the sampled min and max are equal, and
\* otherwise the position of the highest set bit of min XOR max rounded down to a
\* multiple of 8 and then reduced by 8.
GuessOneDigitBelow ==
    Guessed =>
        \A d \in {SampleDiff} :
            Top.shift = IF IsZero(d) THEN 0 ELSE (HighBit(d) \div radix) * radix - radix

\* C10 amended: the guess is 0 when the sampled min and max are equal, and
\* otherwise the position of the highest set bit of min XOR max rounded down to a
\* multiple of 8.
GuessIsHighDigit ==
    Guessed =>
        \A d \in {SampleDiff} :
            Top.shift = IF IsZero(d) THEN 0 ELSE (HighBit(d) \div radix) * radix

GuessIsHighDigit_Witness ==
    /\ Guessed
    /\ Top.shift > 0
    /\ HighBit(SampleDiff) % radix # radix - 1

====
